---- MODULE Spec2Model ----
(***************************************************************************)
(* Model of limber's export command (src/cmd/export.rs): the orchestrator  *)
(* `run`, the endpoint parser `parse_cluster_info`, the query builder      *)
(* `construct_query` and the per-worker scroll loop driven by `join_all`.  *)
(*                                                                         *)
(* Strings the code takes apart (URL scheme, URL path) are sequences of    *)
(* one-character strings; every other string is an opaque TLA+ string.     *)
(* A Rust panic (`expect`, `unwrap`) is an outcome of its own, distinct    *)
(* from the future resolving to `Err`.                                     *)
(***************************************************************************)
EXTENDS Integers, Sequences, FiniteSets, TLC

----------------------------------------------------------------------------
(* Bounds of the model *)

\* largest worker count given on the command line
MaxWorkers == 2
\* total number of hits the remote index serves over the whole export
MaxDocs == 3
\* largest number of hits in one page
MaxPageLen == 2
\* longest URL path (in characters) among the endpoints tried
MaxPathLen == 3

----------------------------------------------------------------------------
(* Character strings *)

RECURSIVE TrimStartMatches(_, _)
\* str::trim_start_matches(c): drops every leading occurrence of c
TrimStartMatches(s, c) ==
    IF s # <<>> /\ Head(s) = c THEN TrimStartMatches(Tail(s), c) ELSE s

\* str::starts_with(p)
StartsWith(s, p) ==
    /\ Len(s) >= Len(p)
    /\ \A i \in 1..Len(p) : s[i] = p[i]

Http == <<"h", "t", "t", "p">>
Https == <<"h", "t", "t", "p", "s">>
Httpx == <<"h", "t", "t", "p", "x">>
Tcp == <<"t", "c", "p">>
\* the alias the default-index branch names
AllAlias == <<"_", "a", "l", "l">>

\* schemes the url crate treats as special (a host is mandatory, the path
\* is never empty); only the two used here are listed
SpecialSchemes == {Http, Https}

RECURSIVE SeqsUpTo(_, _)
\* all sequences over S of length at most n
SeqsUpTo(S, n) ==
    IF n = 0 THEN {<<>>}
    ELSE LET shorter == SeqsUpTo(S, n - 1)
         IN  shorter \cup {Append(s, x) : s \in {t \in shorter : Len(t) = n - 1}, x \in S}

----------------------------------------------------------------------------
(* Command-line arguments *)

\* an endpoint as the URL grammar splits it: scheme, authority, path
Schemes == {Http, Https, Httpx, Tcp}
Hosts == {"", "es:9200"}
Paths == {p \in SeqsUpTo({"/", "a"}, MaxPathLen) : p = <<>> \/ Head(p) = "/"}
Sources == [scheme : Schemes, host : Hosts, path : Paths]

\* --query: absent, or a text that serde_json parses, or one it rejects
QueryTexts == {"{\"match_all\":{}}", "{\"term\":{\"a\":1}}", "{not json"}
Absent == "<absent>"

\* serde_json::from_str::<Value>: the parsed value, or an error
FromStr(text) ==
    CASE text = "{\"match_all\":{}}" -> [ok |-> TRUE, value |-> "Object{match_all:Object{}}"]
      [] text = "{\"term\":{\"a\":1}}" -> [ok |-> TRUE, value |-> "Object{term:Object{a:1}}"]
      [] OTHER -> [ok |-> FALSE, value |-> "syntax error"]

\* --size: absent, or a text that parses as usize, or one that does not
SizeTexts == {"2", "many"}

\* value_t!(args, "size", usize): str::parse::<usize>
ParseUsize(text) ==
    CASE text = "2" -> [ok |-> TRUE, value |-> 2]
      [] OTHER -> [ok |-> FALSE, value |-> 0]

DefaultSize == 100

----------------------------------------------------------------------------
(* Documents, pages and responses of the remote engine *)

\* a hit that is a JSON object with the given fields
Obj(f) == [obj |-> TRUE, fields |-> f]
\* a hit that is not a JSON object (a string, a number, ...)
NotObj == [obj |-> FALSE, fields |-> <<>>]

DocFull == Obj(("_id" :> 1) @@ ("_source" :> 10) @@ ("sort" :> 7) @@ ("_score" :> 9))
DocPlain == Obj(("_id" :> 2) @@ ("_source" :> 20))
DocPool == {DocFull, DocPlain, NotObj}

\* /hits/hits of a response: missing, not an array, or an array of hits
HitsAbsent == [t |-> "absent", v |-> <<>>]
HitsNotArray == [t |-> "notarray", v |-> <<>>]
HitsArray(a) == [t |-> "array", v |-> a]

\* _scroll_id of a response: missing, not a string, or a string
ScrollAbsent == [t |-> "absent", v |-> ""]
ScrollNumber == [t |-> "number", v |-> ""]
ScrollString(c) == [t |-> "string", v |-> c]
Cursors == {"cA", "cB"}
ScrollVals == {ScrollAbsent, ScrollNumber} \cup {ScrollString(c) : c \in Cursors}

Min(a, b) == IF a < b THEN a ELSE b

Last(s) == s[Len(s)]

\* the response bodies engine e (the hits its index is made of, the values
\* it puts in _scroll_id) can send while it has `left` hits to serve
Values(e, left) ==
    [hits : {HitsArray(a) : a \in SeqsUpTo(e.pool, Min(MaxPageLen, left))},
     scroll_id : e.scrolls]
    \cup [hits : {HitsAbsent, HitsNotArray}, scroll_id : {ScrollString("cA")}]

----------------------------------------------------------------------------
(* parse_cluster_info *)

\* Url::parse: a special scheme needs a host and gets the path "/" when the
\* text has none; any other scheme parses with or without host and path
UrlParse(source) ==
    IF source.scheme \in SpecialSchemes /\ source.host = ""
    THEN [ok |-> FALSE, scheme |-> source.scheme, host |-> "", path |-> <<>>]
    ELSE [ok |-> TRUE, scheme |-> source.scheme, host |-> source.host,
          path |-> IF source.scheme \in SpecialSchemes /\ source.path = <<>>
                   THEN <<"/">> ELSE source.path]

\* Url::has_host
HasHost(url) == url.host # ""

\* the condition under which the endpoint is refused
InvalidResource(url) == ~HasHost(url) \/ ~StartsWith(url.scheme, Http)

\* the value of the `if index.is_empty() { "_all" } else { index };` statement
DefaultIndex(index) == IF index = <<>> THEN AllAlias ELSE index

NoHost == [scheme |-> <<>>, host |-> ""]

\* the host/index pair, or an error; the host is the URL with its path
\* cleared and the trailing "/" trimmed, i.e. scheme and authority
parse_cluster_info(a) ==
    LET url == UrlParse(a.source)
    IN  IF ~url.ok
        THEN [ok |-> FALSE, err |-> "url parse error", host |-> NoHost, index |-> <<>>]
        ELSE IF InvalidResource(url)
        THEN [ok |-> FALSE, err |-> "Invalid cluster resource provided",
              host |-> NoHost, index |-> <<>>]
        ELSE LET index == TrimStartMatches(url.path, "/")
                 \* an expression statement: evaluated, its value dropped
                 dropped == DefaultIndex(index)
             IN  [ok |-> TRUE, err |-> "",
                  host |-> [scheme |-> url.scheme, host |-> url.host],
                  index |-> index]

----------------------------------------------------------------------------
(* construct_query *)

\* the page size asked for
QuerySize(a) ==
    IF a.size # Absent /\ ParseUsize(a.size).ok THEN ParseUsize(a.size).value
    ELSE DefaultSize

\* the filter text that is parsed
FilterText(a) == IF a.query # Absent THEN a.query ELSE "{\"match_all\":{}}"

\* Sliced with the comparison off by one
SlicedFromOne(max) == max >= 1

\* whether the slice clause is added
Sliced(max) == max > 1

\* the slice clause of worker id out of max
SliceClause(id, max) == [id |-> id, max |-> max]

\* the query document of worker id out of max, or an error; `keys` is the
\* set of top-level keys of the document
construct_query(a, id, max) ==
    LET filter == FromStr(FilterText(a))
    IN  IF ~filter.ok
        THEN [ok |-> FALSE, err |-> filter.value, keys |-> {},
              query |-> "", size |-> 0, sort |-> <<>>, slice |-> SliceClause(0, 0)]
        ELSE [ok |-> TRUE, err |-> "",
              keys |-> {"query", "size", "sort"}
                       \cup (IF Sliced(max) THEN {"slice"} ELSE {}),
              query |-> filter.value, size |-> QuerySize(a), sort |-> <<"_doc">>,
              slice |-> IF Sliced(max) THEN SliceClause(id, max) ELSE SliceClause(0, 0)]

----------------------------------------------------------------------------
(* Requests *)

\* SearchRequest::for_index(index, query) with the url parameter scroll=1m
SearchRequest(index, query) ==
    [kind |-> "search", index |-> index, body |-> query,
     scroll_id |-> "", scroll |-> "1m"]

NoQuery == [ok |-> TRUE, err |-> "", keys |-> {}, query |-> "", size |-> 0,
            sort |-> <<>>, slice |-> SliceClause(0, 0)]

\* ScrollRequest built from one fixed token instead of the one just received
ScrollRequestFixed(scroll_id) ==
    [kind |-> "scroll", index |-> <<>>, body |-> NoQuery,
     scroll_id |-> "cA", scroll |-> "1m"]

\* ScrollRequest::for_scroll_id(scroll_id, {"scroll": "1m"})
ScrollRequest(scroll_id) ==
    [kind |-> "scroll", index |-> <<>>, body |-> NoQuery,
     scroll_id |-> scroll_id, scroll |-> "1m"]

----------------------------------------------------------------------------
(* The body of the scroll loop, on one response *)

\* serde_json Map::remove: the object without key k (no error if absent)
Remove(f, k) == [x \in (DOMAIN f) \ {k} |-> f[x]]

\* Strip without the second remove
StripSortOnly(hit) == Remove(hit.fields, "sort")

\* what is printed for one hit: the object less "sort" and "_score"
Strip(hit) == Remove(Remove(hit.fields, "sort"), "_score")

RECURSIVE EmitHitsReversed(_)
\* EmitHits printing a page from its last hit to its first
EmitHitsReversed(hits) ==
    IF hits = <<>> \/ ~Head(hits).obj THEN <<>>
    ELSE EmitHitsReversed(Tail(hits)) \o <<Strip(Head(hits))>>

RECURSIVE EmitHits(_)
\* the `for hit in hits` loop: the records printed, in order; the loop
\* stops at the first hit that is not an object (unwrap panics)
EmitHits(hits) ==
    IF hits = <<>> \/ ~Head(hits).obj THEN <<>>
    ELSE <<Strip(Head(hits))>> \o EmitHits(Tail(hits))

\* whether the `for` loop panics on as_object_mut().unwrap()
EmitPanics(hits) == \E i \in 1..Len(hits) : ~hits[i].obj

\* a plain store in place of fetch_add: earlier additions are lost
FetchAddStore(cnt, len) == len

\* AtomicUsize::fetch_add(len): the stored value after the addition
FetchAdd(cnt, len) == cnt + len

\* Processed printing what fetch_add returned, the value before the addition
ProcessedStale(cnt, len) == cnt

\* the running total printed on the diagnostic stream
Processed(cnt, len) == cnt + len

\* LoopOutcome with _scroll_id extracted before the page is looked at
LoopOutcomeCursorFirst(value) ==
    CASE value.hits.t # "array" -> "panic-hits"
      [] value.hits.t = "array" /\ value.scroll_id.t # "string" -> "panic-scroll"
      [] value.hits.t = "array" /\ value.scroll_id.t = "string"
           /\ value.hits.v = <<>> -> "break"
      [] value.hits.t = "array" /\ value.scroll_id.t = "string"
           /\ value.hits.v # <<>> /\ EmitPanics(value.hits.v) -> "panic-doc"
      [] OTHER -> "continue"

\* LoopOutcome without the `if hits.is_empty()` early return
LoopOutcomeNoBreak(value) ==
    CASE value.hits.t # "array" -> "panic-hits"
      [] value.hits.t = "array" /\ EmitPanics(value.hits.v) -> "panic-doc"
      [] value.hits.t = "array" /\ ~EmitPanics(value.hits.v)
           /\ value.scroll_id.t # "string" -> "panic-scroll"
      [] OTHER -> "continue"

\* the outcome of one pass through the loop body:
\*   "panic-hits"   expect() on /hits/hits failed
\*   "break"        empty page, Loop::Break
\*   "panic-doc"    unwrap() on a hit failed, after printing those before it
\*   "panic-scroll" expect() on _scroll_id failed, after printing and counting
\*   "continue"     the next scroll request is sent
LoopOutcome(value) ==
    CASE value.hits.t # "array" -> "panic-hits"
      [] value.hits.t = "array" /\ value.hits.v = <<>> -> "break"
      [] value.hits.t = "array" /\ value.hits.v # <<>> /\ EmitPanics(value.hits.v)
           -> "panic-doc"
      [] value.hits.t = "array" /\ value.hits.v # <<>> /\ ~EmitPanics(value.hits.v)
           /\ value.scroll_id.t # "string" -> "panic-scroll"
      [] OTHER -> "continue"

----------------------------------------------------------------------------
(* State *)

VARIABLES
    args,      \* the command line: source, workers, query, size
    cpus,      \* num_cpus::get()
    pc,        \* where `run` is: "parse", "client", "build", "join", "done"
    host,      \* the cluster address parse_cluster_info returned
    index,     \* the index name parse_cluster_info returned
    idx,       \* the loop variable of `for idx in 0..workers`
    tasks,     \* the initial search request of each task pushed so far
    sess,      \* per worker: "Fetching", "Done", "Failed", "Panicked", "Dropped"
    sent,      \* per worker: the requests it has issued, in order
    recv,      \* per worker: the response bodies it has received, in order
    engine,    \* the remote engine: its hits and its _scroll_id values
    docsLeft,  \* hits the remote index has yet to serve
    counter,   \* the shared AtomicUsize
    output,    \* stdout: one record per println!, with the worker that wrote it
    diag,      \* stderr: one <<len, total>> per eprintln!
    result     \* what the returned future resolved to, if it has

vars == <<args, cpus, engine, pc, host, index, idx, tasks, sess, sent, recv,
          docsLeft, counter, output, diag, result>>

\* what the run is given and never changes
inputs == <<args, cpus, engine>>

Pending == [kind |-> "pending", what |-> "", who |-> -1]
Ok == [kind |-> "ok", what |-> "", who |-> -1]
Err(what, who) == [kind |-> "err", what |-> what, who |-> who]
Panic(what, who) == [kind |-> "panic", what |-> what, who |-> who]

\* value_t!(args, "workers", usize).unwrap_or_else(|_| num_cpus::get())
\* a worker count that treats 0 as "not given" and falls back to the CPU count
workersZeroIsDefault ==
    IF args.workers.given /\ args.workers.n > 0 THEN args.workers.n ELSE cpus

\* line 29: value_t!(args, "workers", usize).unwrap_or_else(|_| num_cpus::get())
workers == IF args.workers.given THEN args.workers.n ELSE cpus

WorkerArgs == {[given |-> FALSE, n |-> 0]} \cup [given : {TRUE}, n : 0..MaxWorkers]

Endpoint(scheme, hostname, path) == [scheme |-> scheme, host |-> hostname, path |-> path]

InitState ==
    /\ cpus \in 1..MaxWorkers
    /\ pc = "parse"
    /\ host = NoHost
    /\ index = <<>>
    /\ idx = 0
    /\ tasks = <<>>
    /\ sess = <<>>
    /\ sent = <<>>
    /\ recv = <<>>
    /\ counter = 0
    /\ output = <<>>
    /\ diag = <<>>
    /\ result = Pending

DefaultSource == Endpoint(Http, "es:9200", <<"/", "a">>)

\* the export of an index holding MaxDocs hits, by every worker count
Init ==
    /\ args \in [source : {DefaultSource},
                 workers : {w \in WorkerArgs : w.given},
                 query : {Absent}, size : {Absent}]
    /\ engine = [pool |-> {DocFull, DocPlain, NotObj},
                 scrolls |-> {ScrollAbsent, ScrollString("cA")}]
    /\ docsLeft = MaxDocs
    /\ InitState
    /\ cpus = 1

\* one worker against an engine that sends every kind of hit and of
\* _scroll_id
InitOne ==
    /\ args = [source |-> DefaultSource, workers |-> [given |-> TRUE, n |-> 1],
               query |-> Absent, size |-> Absent]
    /\ engine = [pool |-> DocPool, scrolls |-> ScrollVals]
    /\ docsLeft = MaxDocs
    /\ InitState
    /\ cpus = 1

\* every combination of --workers, --query and --size, against an index
\* of one hit
InitBuild ==
    /\ args \in [source : {DefaultSource}, workers : WorkerArgs,
                 query : {Absent} \cup QueryTexts, size : {Absent} \cup SizeTexts]
    /\ engine = [pool |-> {DocPlain}, scrolls |-> {ScrollString("cA")}]
    /\ docsLeft = 1
    /\ InitState

\* every endpoint, with the other arguments at their defaults
InitParse ==
    /\ args \in [source : Sources, workers : {[given |-> TRUE, n |-> 1]},
                 query : {Absent}, size : {Absent}]
    /\ engine = [pool |-> {DocPlain}, scrolls |-> {ScrollString("cA")}]
    /\ docsLeft = 0
    /\ InitState
    /\ cpus = 1

----------------------------------------------------------------------------
(* run: before the tasks are polled *)

\* lines 31-38
ParseClusterInfo ==
    /\ pc = "parse"
    /\ LET info == parse_cluster_info(args)
       IN  IF info.ok
           THEN /\ host' = info.host
                /\ index' = info.index
                /\ pc' = "client"
                /\ UNCHANGED result
           ELSE /\ result' = Err(info.err, -1)
                /\ pc' = "done"
                /\ UNCHANGED <<host, index>>
    /\ UNCHANGED <<inputs, idx, tasks, sess, sent, recv, docsLeft,
                   counter, output, diag>>

\* lines 40-54: the client builder succeeds or fails
BuildClient(built) ==
    /\ pc = "client"
    /\ IF built
       THEN pc' = "build" /\ UNCHANGED result
       ELSE pc' = "done" /\ result' = Err("client build error", -1)
    /\ UNCHANGED <<inputs, host, index, idx, tasks, sess, sent, recv,
                   docsLeft, counter, output, diag>>

\* lines 57-143: one iteration of the loop that builds the tasks; a task is
\* a future, nothing is sent until it is polled
BuildTask ==
    /\ pc = "build"
    /\ idx < workers
    /\ LET q == construct_query(args, idx, workers)
       IN  IF q.ok
           THEN /\ tasks' = Append(tasks, SearchRequest(index, q))
                /\ idx' = idx + 1
                /\ UNCHANGED <<pc, result>>
           ELSE /\ result' = Err(q.err, -1)
                /\ pc' = "done"
                /\ UNCHANGED <<tasks, idx>>
    /\ UNCHANGED <<inputs, host, index, sess, sent, recv, docsLeft,
                   counter, output, diag>>

----------------------------------------------------------------------------
(* run: the joined tasks *)

WorkerIds == 0..(workers - 1)

\* a join that resolves as soon as one task has resolved to Ok
AllDoneAny(s) == \E i \in DOMAIN s : s[i] = "Done"

\* join_all resolves to Ok once every task has resolved to Ok
AllDone(s) == \A i \in DOMAIN s : s[i] = "Done"

\* a join that leaves the other tasks running after the first Err
AbandonNone(s, w) == s

\* join_all on the first Err (or an unwinding panic): the tasks that have
\* not finished are dropped and never polled again
Abandon(s, w) ==
    [i \in DOMAIN s |-> IF i # w /\ s[i] = "Fetching" THEN "Dropped" ELSE s[i]]

\* lines 145-150 and the first poll of the joined future: each task sends
\* its initial search request; with no task the join is Ok at once
StartTasks ==
    /\ pc = "build"
    /\ idx = workers
    /\ IF workers = 0
       THEN /\ result' = Ok
            /\ pc' = "done"
            /\ UNCHANGED <<sess, sent, recv>>
       ELSE /\ sess' = [w \in WorkerIds |-> "Fetching"]
            /\ sent' = [w \in WorkerIds |-> <<tasks[w + 1]>>]
            /\ recv' = [w \in WorkerIds |-> <<>>]
            /\ pc' = "join"
            /\ UNCHANGED result
    /\ UNCHANGED <<inputs, host, index, idx, tasks, docsLeft,
                   counter, output, diag>>

\* TransportFailure with the failed request sent again
TransportFailureRetry(w) ==
    /\ pc = "join"
    /\ w \in DOMAIN sess
    /\ sess[w] = "Fetching"
    /\ sent' = [sent EXCEPT ![w] = Append(@, Last(sent[w]))]
    /\ UNCHANGED <<inputs, host, index, idx, tasks, sess, recv, docsLeft,
                   counter, output, diag, result, pc>>

\* lines 72-76 and 131-136: send() or into_response resolves to Err; the
\* task resolves to Err and so does join_all
TransportFailure(w) ==
    /\ pc = "join"
    /\ w \in DOMAIN sess
    /\ sess[w] = "Fetching"
    /\ sess' = Abandon([sess EXCEPT ![w] = "Failed"], w)
    /\ result' = Err("transport error", w)
    /\ pc' = "done"
    /\ UNCHANGED <<inputs, host, index, idx, tasks, sent, recv, docsLeft,
                   counter, output, diag>>

\* Counted with fetch_add placed before the `for hit in hits` loop
CountedBeforeEmit(out) == out \in {"panic-doc", "panic-scroll", "continue"}

\* whether a pass with outcome `out` gets as far as fetch_add and eprintln!:
\* they follow the `for` loop and precede the _scroll_id lookup
Counted(out) == out \in {"panic-scroll", "continue"}

\* the records one pass of the loop prints, tagged with the worker
Printed(w, hits) ==
    [i \in 1..Len(EmitHits(hits)) |-> [w |-> w, doc |-> EmitHits(hits)[i]]]

\* lines 77-138: worker w's pending request is answered with `value` and
\* the loop body runs on it, up to the next request or the end of the task
LoopBody(w, value) ==
    /\ pc = "join"
    /\ w \in DOMAIN sess
    /\ sess[w] = "Fetching"
    /\ value \in Values(engine, docsLeft)
    /\ recv' = [recv EXCEPT ![w] = Append(@, value)]
    /\ docsLeft' = docsLeft - Len(value.hits.v)
    /\ LET out == LoopOutcome(value)
           hits == value.hits.v
           len == Len(hits)
           counted == Counted(out)
           panicked == out \in {"panic-hits", "panic-doc", "panic-scroll"}
       IN  /\ output' = output \o Printed(w, hits)
           /\ counter' = IF counted THEN FetchAdd(counter, len) ELSE counter
           /\ diag' = IF counted THEN Append(diag, <<len, Processed(counter, len)>>)
                      ELSE diag
           /\ sent' = IF out = "continue"
                      THEN [sent EXCEPT ![w] = Append(@, ScrollRequest(value.scroll_id.v))]
                      ELSE sent
           /\ sess' = CASE out = "break" -> [sess EXCEPT ![w] = "Done"]
                        [] out = "continue" -> sess
                        [] OTHER -> Abandon([sess EXCEPT ![w] = "Panicked"], w)
           /\ result' = CASE panicked -> Panic(out, w)
                          [] out = "break" /\ AllDone([sess EXCEPT ![w] = "Done"]) -> Ok
                          [] OTHER -> result
           /\ pc' = IF panicked \/ (out = "break" /\ AllDone([sess EXCEPT ![w] = "Done"]))
                    THEN "done" ELSE pc
    /\ UNCHANGED <<inputs, host, index, idx, tasks>>

\* the engine answers worker w's pending request with some response body
Respond(w) == \E value \in Values(engine, docsLeft) : LoopBody(w, value)

Next ==
    \/ ParseClusterInfo
    \/ \E built \in BOOLEAN : BuildClient(built)
    \/ BuildTask
    \/ StartTasks
    \/ \E w \in 0..MaxWorkers : TransportFailure(w)
    \/ \E w \in 0..MaxWorkers : Respond(w)

Spec == Init /\ [][Next]_vars

SpecOne == InitOne /\ [][Next]_vars

SpecBuild == InitBuild /\ [][Next]_vars

\* parse_cluster_info alone, on every endpoint
NextParse == ParseClusterInfo

SpecParse == InitParse /\ [][NextParse]_vars

\* every worker count against an index of plain documents
InitLive ==
    /\ args \in [source : {DefaultSource},
                 workers : {w \in WorkerArgs : w.given},
                 query : {Absent}, size : {Absent}]
    /\ engine = [pool |-> {DocPlain},
                 scrolls |-> {ScrollAbsent, ScrollString("cA")}]
    /\ docsLeft = MaxDocs
    /\ InitState
    /\ cpus = 1

\* every worker count against an engine that hands out two different
\* cursor tokens
InitCursor ==
    /\ args \in [source : {DefaultSource},
                 workers : {w \in WorkerArgs : w.given},
                 query : {Absent}, size : {Absent}]
    /\ engine = [pool |-> {DocPlain},
                 scrolls |-> {ScrollString(c) : c \in Cursors}]
    /\ docsLeft = MaxDocs
    /\ InitState
    /\ cpus = 1

SpecCursor == InitCursor /\ [][Next]_vars

\* the runtime polls the joined future whenever a task can make progress,
\* and every pending request is answered or fails: no step that is possible
\* is put off forever
SpecLive == InitLive /\ [][Next]_vars /\ WF_vars(Next)

----------------------------------------------------------------------------
(* Vocabulary of the properties *)

\* a response whose page is a non-empty array of objects
FullPage(v) ==
    /\ v.hits.t = "array"
    /\ v.hits.v # <<>>
    /\ \A i \in 1..Len(v.hits.v) : v.hits.v[i].obj

\* a response whose page is the empty array
EmptyPage(v) == v.hits.t = "array" /\ v.hits.v = <<>>

\* a response that carries a string cursor
HasCursor(v) == v.scroll_id.t = "string"

RECURSIVE PageSizes(_)
\* the total size of the non-empty pages among the responses rs
PageSizes(rs) ==
    IF rs = <<>> THEN 0
    ELSE (IF Head(rs).hits.t = "array" /\ Head(rs).hits.v # <<>>
          THEN Len(Head(rs).hits.v) ELSE 0) + PageSizes(Tail(rs))

RECURSIVE SumOver(_, _)
\* the sum of f[w] over the workers in S
SumOver(f, S) ==
    IF S = {} THEN 0
    ELSE LET w == CHOOSE x \in S : TRUE IN f[w] + SumOver(f, S \ {w})

\* the records worker w wrote to stdout, in order
WrittenBy(w) == SelectSeq(output, LAMBDA r : r.w = w)

RECURSIVE ObjectsBefore(_)
\* the hits of a page that precede its first hit that is not an object
ObjectsBefore(hits) ==
    IF hits = <<>> \/ ~Head(hits).obj THEN <<>>
    ELSE <<Head(hits)>> \o ObjectsBefore(Tail(hits))

RECURSIVE HitsReached(_)
\* the hits of the responses rs that the loop reached, in order
HitsReached(rs) ==
    IF rs = <<>> THEN <<>>
    ELSE ObjectsBefore(Head(rs).hits.v) \o HitsReached(Tail(rs))

----------------------------------------------------------------------------
(* C1 *)

\* C1: one worker that has received k >= 0 non-empty pages with string
\* cursors and then one empty page has written exactly the n1 + ... + nk hits
\* of those pages, has issued exactly k + 1 requests (as many as responses:
\* none after the empty page), and the export has ended in success.
C1_ScriptedRun ==
    (/\ workers = 1
     /\ 0 \in DOMAIN recv
     /\ recv[0] # <<>>
     /\ EmptyPage(Last(recv[0]))
     /\ \A i \in 1..(Len(recv[0]) - 1) : FullPage(recv[0][i]) /\ HasCursor(recv[0][i]))
    => /\ Len(output) = PageSizes(recv[0])
       /\ Len(sent[0]) = Len(recv[0])
       /\ sent[0][1].kind = "search"
       /\ \A i \in 2..Len(sent[0]) : sent[0][i].kind = "scroll"
       /\ sess[0] = "Done"
       /\ result = Ok
       /\ pc = "done"

\* two non-empty pages (2 hits, then 1) and the empty page: 3 requests
C1_Witness ==
    /\ workers = 1
    /\ 0 \in DOMAIN recv
    /\ Len(recv[0]) = 3
    /\ Len(recv[0][1].hits.v) = 2
    /\ Len(recv[0][2].hits.v) = 1
    /\ EmptyPage(recv[0][3])
    /\ Len(sent[0]) = 3
    /\ Len(output) = 3
    /\ result = Ok

----------------------------------------------------------------------------
(* C2 *)

\* C2: once every worker has reached its empty page (the export ended in
\* success), the counter is exactly the sum, over all workers, of the sizes
\* of the non-empty pages each one received.
C2_CounterIsSum ==
    (result = Ok /\ workers > 0)
    => counter = SumOver([w \in DOMAIN recv |-> PageSizes(recv[w])], DOMAIN recv)

\* two workers that both counted a page, interleaved, and finished
C2_Witness ==
    /\ result = Ok
    /\ workers = 2
    /\ PageSizes(recv[0]) = 2
    /\ PageSizes(recv[1]) = 1
    /\ Len(recv[0]) = 3
    /\ counter = 3

----------------------------------------------------------------------------
(* C3 *)

\* C3: every record on stdout lacks the keys "sort" and "_score"; the
\* records a worker wrote are, in order, the hits it received (up to a hit
\* that is not an object), each with every other key and its value
\* unchanged, whether or not the hit carried the two keys.
C3_StrippedOutput ==
    /\ \A i \in 1..Len(output) :
          "sort" \notin DOMAIN output[i].doc /\ "_score" \notin DOMAIN output[i].doc
    /\ \A w \in DOMAIN recv :
          LET src == HitsReached(recv[w])
              out == WrittenBy(w)
          IN  /\ Len(out) = Len(src)
              /\ \A i \in 1..Len(src) :
                    /\ DOMAIN out[i].doc = (DOMAIN src[i].fields) \ {"sort", "_score"}
                    /\ \A k \in DOMAIN out[i].doc : out[i].doc[k] = src[i].fields[k]

\* a hit with both keys and a hit with neither have both been written
C3_Witness ==
    /\ \E w \in DOMAIN recv :
          \E i \in 1..Len(HitsReached(recv[w])) : HitsReached(recv[w])[i] = DocFull
    /\ \E w \in DOMAIN recv :
          \E i \in 1..Len(HitsReached(recv[w])) : HitsReached(recv[w])[i] = DocPlain
    /\ Len(output) >= 2

----------------------------------------------------------------------------
(* C4 *)

\* the query worker id must get when there are n workers
SliceOk(q, id, n) ==
    IF n > 1
    THEN "slice" \in q.keys /\ q.slice.id = id /\ q.slice.max = n
    ELSE "slice" \notin q.keys

\* C4: the loop builds one query per worker id, in order; once it is over
\* there are exactly workerCount of them, for the ids 0..workerCount-1; with
\* more than one worker query i has the slice {id: i, max: workerCount},
\* with one worker it has no slice; worker i sends query i.
C4_SlicePerWorker ==
    /\ Len(tasks) = idx
    /\ idx <= workers
    /\ \A i \in 1..Len(tasks) : SliceOk(tasks[i].body, i - 1, workers)
    /\ pc = "join" => Len(tasks) = workers
    /\ \A w \in DOMAIN sent :
          sent[w][1].kind = "search" /\ SliceOk(sent[w][1].body, w, workers)

\* the tasks of two or more workers have been built and started
C4_Witness ==
    /\ pc = "join"
    /\ workers >= 2
    /\ Len(tasks) = workers
    /\ \A w \in 0..(workers - 1) : sent[w][1].body.slice = [id |-> w, max |-> workers]

----------------------------------------------------------------------------
(* C5 *)

\* the workers whose session ended otherwise than by its empty page
Unsuccessful == {w \in DOMAIN sess : sess[w] \in {"Failed", "Panicked"}}

\* C5: the overall result is success only if every session ended in
\* success, and as soon as a session has ended in failure the overall
\* result is a reported failure, the failure of that session.
C5_FirstFailureReported ==
    /\ result = Ok => \A w \in DOMAIN sess : sess[w] = "Done"
    /\ \A w \in Unsuccessful : result.kind = "err" /\ result.who = w

----------------------------------------------------------------------------
(* C6 *)

\* C6: a worker whose last response had a non-empty page but no string
\* cursor has ended in failure, the export's result is that error value,
\* and the worker has sent nothing since.
C6_CursorErrorReported ==
    \A w \in DOMAIN recv :
        (recv[w] # <<>> /\ FullPage(Last(recv[w])) /\ ~HasCursor(Last(recv[w])))
        => /\ result.kind = "err"
           /\ result.who = w
           /\ Len(sent[w]) = Len(recv[w])

----------------------------------------------------------------------------
(* C7 *)

\* C7: a worker whose last response had no hits array has ended in failure,
\* the export's result is that error value, nothing of that response was
\* written and the worker has sent nothing since.
C7_HitsErrorReported ==
    \A w \in DOMAIN recv :
        (recv[w] # <<>> /\ Last(recv[w]).hits.t # "array")
        => /\ result.kind = "err"
           /\ result.who = w
           /\ Len(WrittenBy(w)) = Len(HitsReached(recv[w]))
           /\ Len(sent[w]) = Len(recv[w])

----------------------------------------------------------------------------
(* C8 *)

\* the number of requests issued so far
Requests == SumOver([w \in DOMAIN sent |-> Len(sent[w])], DOMAIN sent)

\* C8: with a --query text that is not valid JSON, whatever the worker
\* count, no request is ever issued and the export ends with an error.
C8_InvalidFilterFails ==
    (args.query # Absent /\ ~FromStr(args.query).ok)
    => /\ Requests = 0
       /\ pc = "done" => result.kind = "err"

----------------------------------------------------------------------------
(* C9 *)

\* the endpoint has been parsed and accepted
Accepted == pc = "client"

\* C9: the index name of an accepted endpoint is its path less the leading
\* "/" when that is not empty, and "_all" otherwise; it is never empty.
C9_IndexName ==
    Accepted
    => LET trimmed == TrimStartMatches(UrlParse(args.source).path, "/")
       IN  /\ trimmed # <<>> => index = trimmed
           /\ trimmed = <<>> => index = AllAlias
           /\ index # <<>>

----------------------------------------------------------------------------
(* C10 *)

\* C10: an endpoint is refused exactly when it has no host or its scheme
\* is neither "http" nor "https".
C10_RejectedIffInvalid ==
    pc # "parse"
    => (result.kind = "err"
        <=> (args.source.host = "" \/ args.source.scheme \notin {Http, Https}))

----------------------------------------------------------------------------
(* C11 *)

RECURSIVE CountedSizes(_)
\* the total size of the pages among rs that are non-empty arrays of objects
CountedSizes(rs) ==
    IF rs = <<>> THEN 0
    ELSE (IF FullPage(Head(rs)) THEN Len(Head(rs).hits.v) ELSE 0)
         + CountedSizes(Tail(rs))

\* the total size of the pages of objects all workers have received
AllCounted == SumOver([w \in DOMAIN recv |-> CountedSizes(recv[w])], DOMAIN recv)

\* C11: no worker ever has more than one request unanswered (a request is
\* never sent again), and a worker whose request failed in transport is in
\* the failed state with that request still unanswered: its failure is the
\* export's result, the export is over, the worker has written only the hits
\* of the responses it did receive, and the counter holds only the pages
\* received.
C11_TransportFailureIsFinal ==
    /\ \A w \in DOMAIN sent : Len(sent[w]) <= Len(recv[w]) + 1
    /\ \A w \in DOMAIN sess :
          sess[w] = "Failed"
          => /\ result = Err("transport error", w)
             /\ pc = "done"
             /\ Len(sent[w]) = Len(recv[w]) + 1
             /\ Len(WrittenBy(w)) = Len(HitsReached(recv[w]))
             /\ counter = AllCounted
             /\ \A v \in DOMAIN sess : sess[v] # "Fetching"

\* a continuation request failed, after a page of 2 had been written and
\* counted, while another worker was still fetching
C11_Witness ==
    /\ workers = 2
    /\ DOMAIN sess = {0, 1}
    /\ sess[0] = "Failed"
    /\ sess[1] = "Dropped"
    /\ Len(recv[0]) = 1
    /\ Len(sent[0]) = 2
    /\ sent[0][2].kind = "scroll"
    /\ counter = 2
    /\ Len(output) = 2
    /\ result = Err("transport error", 0)

----------------------------------------------------------------------------
(* C12 *)

RECURSIVE AllHits(_)
\* every hit of the responses rs, page after page
AllHits(rs) ==
    IF rs = <<>> THEN <<>> ELSE Head(rs).hits.v \o AllHits(Tail(rs))

\* the sizes of the pages of the responses rs
Sizes(rs) == [i \in 1..Len(rs) |-> Len(rs[i].hits.v)]

\* the end-to-end example: worker 0 got pages of 2, 1 and 0 documents,
\* worker 1 an empty page at once
Example ==
    /\ DOMAIN recv = {0, 1}
    /\ Sizes(recv[0]) = <<2, 1, 0>>
    /\ Sizes(recv[1]) = <<0>>
    /\ \A i \in 1..3 : recv[0][i].hits.t = "array"
    /\ recv[1][1].hits.t = "array"
    /\ \A i \in 1..3 : AllHits(recv[0])[i].obj

\* C12: for each worker whose received hits are all documents (objects),
\* what it wrote is, record for record and in order, the hits of its pages
\* in the order received, each written once; in the example the output has
\* exactly 3 records and the counter is 3.
C12_PerWorkerOrder ==
    /\ \A w \in DOMAIN recv :
          LET src == AllHits(recv[w])
              out == WrittenBy(w)
          IN  (\A i \in 1..Len(src) : src[i].obj)
              => /\ Len(out) = Len(src)
                 /\ \A i \in 1..Len(src) :
                       \A k \in DOMAIN out[i].doc : out[i].doc[k] = src[i].fields[k]
                 /\ \A i \in 1..Len(src) : "_id" \in DOMAIN out[i].doc
    /\ Example => Len(output) = 3 /\ counter = 3 /\ result = Ok

\* the example, with two different documents in the first page
C12_Witness ==
    /\ Example
    /\ recv[0][1].hits.v[1] # recv[0][1].hits.v[2]
    /\ Len(output) = 3
    /\ counter = 3

----------------------------------------------------------------------------
(* C13 *)

RECURSIVE CountedPages(_)
\* how many of the responses rs are non-empty pages of objects
CountedPages(rs) ==
    IF rs = <<>> THEN 0
    ELSE (IF FullPage(Head(rs)) THEN 1 ELSE 0) + CountedPages(Tail(rs))

\* the counter value before diagnostic line i was produced
TotalBefore(i) == IF i = 1 THEN 0 ELSE diag[i - 1][2]

\* C13: there is exactly one diagnostic line per non-empty page of
\* documents received (none for an empty page); each line reports a page
\* size n > 0 and, as running total, the counter value just before that
\* page's increment plus n; so no two lines report the same total, and the
\* last (largest) total is the value of the counter.
C13_DiagnosticLines ==
    /\ Len(diag) = SumOver([w \in DOMAIN recv |-> CountedPages(recv[w])], DOMAIN recv)
    /\ \A i \in 1..Len(diag) :
          /\ diag[i][1] > 0
          /\ diag[i][1] <= MaxPageLen
          /\ diag[i][2] = TotalBefore(i) + diag[i][1]
    /\ \A i, j \in 1..Len(diag) : i # j => diag[i][2] # diag[j][2]
    /\ \A i \in 1..Len(diag) : diag[i][2] <= counter
    /\ counter = IF diag = <<>> THEN 0 ELSE Last(diag)[2]

\* three pages of two workers were counted, interleaved, and both workers
\* reached their empty page
C13_Witness ==
    /\ DOMAIN recv = {0, 1}
    /\ CountedPages(recv[0]) = 2
    /\ CountedPages(recv[1]) = 1
    /\ Len(diag) = 3
    /\ diag[3][2] = 3
    /\ result = Ok

----------------------------------------------------------------------------
(* C14 *)

\* no request has failed and no response was malformed
NoFault == result.kind \notin {"err", "panic"}

\* every session has ended, one way or another
AllEnded == \A w \in DOMAIN sess : sess[w] # "Fetching"

\* C14: under fair scheduling the export always comes to an end with a
\* result and no session still fetching; if no request ever fails and no
\* response is malformed, every session reaches its empty page and the
\* result is success; and whenever there is a result while sessions exist,
\* either all of them have finished or one of them has failed.
C14_EventuallyReported ==
    /\ <>(pc = "done" /\ result.kind # "pending" /\ AllEnded)
    /\ ([]NoFault) => <>(pc = "done" /\ result = Ok /\ AllDone(sess))
    /\ [](result.kind # "pending" /\ DOMAIN sess # {}
          => (AllDone(sess) \/ Unsuccessful # {}))

\* two workers both reached their empty page after a non-empty page each
C14_Witness ==
    /\ DOMAIN sess = {0, 1}
    /\ AllDone(sess)
    /\ result = Ok
    /\ Len(recv[0]) >= 2
    /\ Len(recv[1]) >= 2

----------------------------------------------------------------------------
(* C15 *)

\* the cursor tokens the engine has returned to worker w
TokensOf(w) ==
    {recv[w][i].scroll_id.v : i \in {j \in 1..Len(recv[w]) : HasCursor(recv[w][j])}}

\* the cursor tokens worker w has sent
TokensSentBy(w) == {sent[w][i].scroll_id : i \in 2..Len(sent[w])}

\* C15: a worker's first request is its search and every later one is a
\* scroll request that carries the token of the response that worker
\* received just before, the scroll window "1m" and no query, size, sort or
\* slice; a worker sends no token that was returned only to other workers;
\* a worker has at most one request unanswered.
C15_ContinuationRequests ==
    \A w \in DOMAIN sent :
        /\ Len(sent[w]) <= Len(recv[w]) + 1
        /\ \A i \in 2..Len(sent[w]) :
              /\ sent[w][i].kind = "scroll"
              /\ HasCursor(recv[w][i - 1])
              /\ sent[w][i].scroll_id = recv[w][i - 1].scroll_id.v
              /\ sent[w][i].scroll = "1m"
              /\ sent[w][i].body.keys = {}
              /\ sent[w][i].body = NoQuery
              /\ sent[w][i].index = <<>>
        /\ TokensSentBy(w) \subseteq TokensOf(w)

\* worker 0 was given "cA" and then "cB" and sent each in turn; worker 1
\* was only ever given "cB", so "cA" is a token of worker 0 alone
C15_Witness ==
    /\ DOMAIN sent = {0, 1}
    /\ Len(sent[0]) = 3
    /\ sent[0][2].scroll_id = "cA"
    /\ sent[0][3].scroll_id = "cB"
    /\ Len(sent[1]) = 2
    /\ TokensOf(1) = {"cB"}
    /\ TokensSentBy(1) = {"cB"}

----------------------------------------------------------------------------
(* C16 *)

\* C16: a worker whose last response is an empty page has ended in success
\* and sent nothing more, whatever that response has for _scroll_id (a
\* string, something else, or nothing); with one worker the export's result
\* is success.
C16_EmptyPageIgnoresCursor ==
    \A w \in DOMAIN recv :
        (recv[w] # <<>> /\ EmptyPage(Last(recv[w])))
        => /\ sess[w] = "Done"
           /\ Len(sent[w]) = Len(recv[w])
           /\ ~(result.kind \in {"err", "panic"} /\ result.who = w)
           /\ workers = 1 => result = Ok

\* after a non-empty page, an empty page without _scroll_id ended the export
\* in success
C16_Witness ==
    /\ DOMAIN recv = {0}
    /\ Len(recv[0]) = 2
    /\ FullPage(recv[0][1])
    /\ recv[0][2] = [hits |-> HitsArray(<<>>), scroll_id |-> ScrollAbsent]
    /\ result = Ok

----------------------------------------------------------------------------
(* C17 *)

\* the hits written by all workers according to the responses received
AllReached == SumOver([w \in DOMAIN recv |-> Len(HitsReached(recv[w]))], DOMAIN recv)

\* C17: the counter never exceeds the number of records written; it is the
\* total size of the pages that were written to their last hit (a page cut
\* short by a hit that is not an object is written in part and not
\* counted); and a worker whose last page had no string cursor has written
\* every hit of that page and the page is in the counter.
C17_CountAfterWrite ==
    /\ counter <= Len(output)
    /\ Len(output) = AllReached
    /\ counter = AllCounted
    /\ \A w \in DOMAIN recv :
          (recv[w] # <<>> /\ FullPage(Last(recv[w])) /\ ~HasCursor(Last(recv[w])))
          => /\ Len(WrittenBy(w)) = CountedSizes(recv[w])
             /\ Len(WrittenBy(w)) = Len(AllHits(recv[w]))
             /\ diag # <<>>
             /\ Last(diag) = <<Len(Last(recv[w]).hits.v), counter>>

\* a page of 2 without _scroll_id: both hits are on stdout and in the
\* counter although the session ended on the cursor
C17_Witness ==
    /\ DOMAIN recv = {0, 1}
    /\ Len(recv[0]) = 1
    /\ Len(recv[0][1].hits.v) = 2
    /\ FullPage(recv[0][1])
    /\ recv[0][1].scroll_id = ScrollAbsent
    /\ sess[0] = "Panicked"
    /\ Len(output) = 2
    /\ counter = 2

----------------------------------------------------------------------------
(* C18 *)

\* a session has failed and its failure is the export's result
FailureReported == result.kind = "err" /\ result.who \in DOMAIN sess

\* C18: once a session's failure is the export's result, every other
\* session has finished or been dropped, and from then on no request is
\* sent, no record written and the counter and the diagnostic stream stay
\* as they are; at every step stdout only grows at its end, so what was
\* written before stays written.
C18_FailFast ==
    /\ [](FailureReported => \A w \in DOMAIN sess : sess[w] \in {"Done", "Failed", "Dropped"})
    /\ [][FailureReported
          => (sent' = sent /\ output' = output /\ counter' = counter /\ diag' = diag)]_vars
    /\ [][/\ Len(output') >= Len(output)
          /\ SubSeq(output', 1, Len(output)) = output]_vars

\* worker 0's request failed after worker 1 had written a page and was
\* waiting for its next one: worker 1 is dropped, its records are on stdout
C18_Witness ==
    /\ DOMAIN sess = {0, 1}
    /\ result = Err("transport error", 0)
    /\ sess[0] = "Failed"
    /\ sess[1] = "Dropped"
    /\ Len(sent[1]) = 2
    /\ Len(WrittenBy(1)) = 2
    /\ counter = 2

----------------------------------------------------------------------------
(* C19 *)

\* --workers 0 was given
ZeroWorkers == args.workers.given /\ args.workers.n = 0

\* the endpoint is one the run accepts and the client builder did not fail
ReachedTasks ==
    /\ parse_cluster_info(args).ok
    /\ result # Err("client build error", -1)

\* C19: with --workers 0 no task is ever built and no session started, no
\* request is sent, nothing is written and the counter stays 0; once the
\* endpoint is accepted and the client built, the very next step ends the
\* export with success.
C19_NoWorkers ==
    /\ [](ZeroWorkers
          => /\ tasks = <<>>
             /\ DOMAIN sess = {}
             /\ Requests = 0
             /\ output = <<>>
             /\ diag = <<>>
             /\ counter = 0
             /\ (pc = "done" /\ ReachedTasks) => result = Ok)
    /\ [][(ZeroWorkers /\ pc = "build") => (pc' = "done" /\ result' = Ok)]_vars

\* an export with --workers 0 that has ended with success
C19_Witness ==
    /\ ZeroWorkers
    /\ pc = "done"
    /\ result = Ok
    /\ host # NoHost
    /\ Requests = 0

====
